---- MODULE Spec2Model ----
(***************************************************************************)
(* A model of app.py of stock-predict-app: the Supabase tables (users,     *)
(* history, favorites) and the functions on them, the Streamlit session    *)
(* state, and one script run of main() / show_stock_predict_ui() per user  *)
(* interaction.                                                            *)
(*                                                                         *)
(* Strings that the code transforms (symbols, typed text) are sequences of *)
(* one-character strings, so that .upper() and .strip() are computed.      *)
(* Usernames and queries are never transformed here and are plain strings. *)
(*                                                                         *)
(* Three specifications share the definitions:                             *)
(*   SpecHistory  add_history calls by any users, read by get_history;     *)
(*   SpecStore    delete_account, one delete at a time, with the writes of *)
(*                other sessions in between;                               *)
(*   SpecDelete   delete_account, one delete at a time, with no write of   *)
(*                another session while the call is in progress;           *)
(*   Spec         one browser session, one action per script run;          *)
(*   SpecForecast the frames of lines 259-289 of one run, on the dates of  *)
(*                a downloaded series;                                     *)
(*   SpecTranslate  translate_to_english on queries of a few code points.  *)
(***************************************************************************)
EXTENDS Integers, Sequences, FiniteSets, TLC

\* ------------------------------------------------------------------ bounds
\* rows inserted into history in SpecHistory
MaxInsertions == 7
\* rows of the history table in Spec and SpecStore
MaxHistory == 1
\* rows of the favorites table in Spec and SpecStore
MaxFavorites == 1
\* leading blanks of a text typed into the symbol field
MaxBlanks == 1
\* rows of a downloaded price series
MaxRows == 10
\* the latest day a downloaded series can have in SpecForecast; day 0 is a
\* Monday
MaxDate == 15
\* characters of a query given to translate_to_english in SpecTranslate
MaxQueryLen == 3

\* ------------------------------------------------------- program constants
\* .limit(5) of get_history
HISTORY_LIMIT == 5
\* len(data) < 10 of the forecast
MIN_ROWS == 10
\* ord(char) > 255 of translate_to_english
MAX_SINGLE_BYTE == 255
\* model.make_future_dataframe(periods=10)
PERIODS == 10
\* future['day_of_week'] < 5
SATURDAY == 5
\* st.session_state['search_symbol'] = 'AAPL'
DEFAULT_SYMBOL == <<"A", "A", "P", "L">>

\* ------------------------------------------------------------ input sets
Usernames == {"u1", "u2"}
\* symbols inserted in SpecHistory and SpecStore
StoreSymbols == {<<"A">>, <<"B">>, <<"C">>}
\* symbol of the candidate the ticker search offers for the query
Candidates == {<<"a">>}
\* absent session key / widget without a value (Python None)
None == <<"None">>

VARIABLES
    supabase,       \* the tables: users (a set of usernames), history (rows
                    \* in timestamp order, oldest first), favorites (a set)
    deletion,       \* SpecStore: the delete_account call in progress
    session_state,  \* st.session_state of the browser session
    widgets,        \* the unkeyed widgets: symbol text_input, result selectbox
    page,           \* what the last completed run rendered: "login", "app"
    shown_history,  \* history buttons rendered in the sidebar
    pc,             \* "idle", or "rerun" after st.rerun()
    last_run,       \* calls made by the latest run
    frames,         \* SpecForecast: df_train, future and forecast of a run
    translation     \* SpecTranslate: the latest translate_to_english call

vars == <<supabase, deletion, session_state, widgets, page, shown_history, pc,
          last_run, frames, translation>>

\* what the runs of Spec leave alone
pureVars == <<frames, translation>>

sessionVars == <<session_state, widgets, page, shown_history, pc, last_run>>

\* ------------------------------------------------------------- strings
UpperChar(c) == CASE c = "a" -> "A" [] c = "b" -> "B" [] OTHER -> c

\* str.upper()
Upper(s) == [i \in 1..Len(s) |-> UpperChar(s[i])]

IsSpace(c) == c = " "

RECURSIVE LStrip(_)
LStrip(s) == IF s # <<>> /\ IsSpace(s[1]) THEN LStrip(Tail(s)) ELSE s

RECURSIVE RStrip(_)
RStrip(s) ==
    IF s # <<>> /\ IsSpace(s[Len(s)]) THEN RStrip(SubSeq(s, 1, Len(s) - 1)) ELSE s

\* str.strip()
Strip(s) == RStrip(LStrip(s))

\* ------------------------------------------------------------- sequences
Reverse(s) == [i \in 1..Len(s) |-> s[Len(s) + 1 - i]]

Limit(s, n) == SubSeq(s, 1, IF Len(s) < n THEN Len(s) ELSE n)

Contains(s, x) == \E i \in 1..Len(s) : s[i] = x

Elements(s) == {s[i] : i \in 1..Len(s)}

\* list(dict.fromkeys(s)): the first occurrence of each element, in order
RECURSIVE DictFromKeys(_)
DictFromKeys(s) ==
    IF s = <<>> THEN <<>>
    ELSE LET r == DictFromKeys(SubSeq(s, 1, Len(s) - 1))
             x == s[Len(s)]
         IN IF Contains(r, x) THEN r ELSE Append(r, x)

\* ---------------------------------------------------------------- store
EmptyStore == [users |-> {}, history |-> <<>>, favorites |-> {}]

Row(username, symbol) == [username |-> username, symbol |-> symbol]

\* the symbols of the user's history rows, oldest first
SymbolsOf(db, username) ==
    LET rows == SelectSeq(db.history, LAMBDA r : r.username = username)
    IN [i \in 1..Len(rows) |-> rows[i].symbol]

\* add_history: one inserted row, timestamped by the store at insertion
add_history(db, username, symbol) ==
    [db EXCEPT !.history = Append(@, Row(username, symbol))]

\* get_history with the .order("timestamp", desc=True) dropped
get_history_ascending(db, username) ==
    DictFromKeys(Limit(SymbolsOf(db, username), HISTORY_LIMIT))

\* get_history with the dict.fromkeys dropped
get_history_raw(db, username) ==
    Limit(Reverse(SymbolsOf(db, username)), HISTORY_LIMIT)

\* get_history: the newest 5 rows of the user, then the duplicates dropped
get_history(db, username) ==
    DictFromKeys(Limit(Reverse(SymbolsOf(db, username)), HISTORY_LIMIT))

\* get_favorites: the symbols of the user's favorites rows
get_favorites(db, username) ==
    {r.symbol : r \in {x \in db.favorites : x.username = username}}

\* add_favorite, the insert accepted
add_favorite(db, username, symbol) ==
    [db EXCEPT !.favorites = @ \cup {Row(username, symbol)}]

\* remove_favorite: delete().eq("username", ...).eq("symbol", ...)
remove_favorite(db, username, symbol) ==
    [db EXCEPT !.favorites = @ \ {Row(username, symbol)}]

\* create_user: insert into users, the username is unique
create_user(db, username) == [db EXCEPT !.users = @ \cup {username}]

\* login_user: the rows with this username and password hash
login_user(db, username, password_ok) == username \in db.users /\ password_ok

\* ------------------------------------------------------- delete_account
\* delete_account with the .eq("username", username) of line 107 dropped
DeleteStepAllHistory(db, i, username) ==
    CASE i = 1 -> [db EXCEPT !.history = <<>>]
      [] i = 2 -> [db EXCEPT !.favorites = {r \in @ : r.username # username}]
      [] i = 3 -> [db EXCEPT !.users = @ \ {username}]

\* delete_account with the users row deleted first
DeleteStepUsersFirst(db, i, username) ==
    CASE i = 1 -> [db EXCEPT !.users = @ \ {username}]
      [] i = 2 -> [db EXCEPT !.history =
                       SelectSeq(@, LAMBDA r : r.username # username)]
      [] i = 3 -> [db EXCEPT !.favorites = {r \in @ : r.username # username}]

\* the i-th delete of delete_account: history, favorites, users
DeleteStep(db, i, username) ==
    CASE i = 1 -> [db EXCEPT !.history =
                       SelectSeq(@, LAMBDA r : r.username # username)]
      [] i = 2 -> [db EXCEPT !.favorites = {r \in @ : r.username # username}]
      [] i = 3 -> [db EXCEPT !.users = @ \ {username}]

\* delete_account when the delete number raises_at raises (4: none does):
\* the deletes before it are made and kept, True is returned if none raised
delete_account(db, username, raises_at) ==
    LET d1 == IF raises_at > 1 THEN DeleteStep(db, 1, username) ELSE db
        d2 == IF raises_at > 2 THEN DeleteStep(d1, 2, username) ELSE d1
        d3 == IF raises_at > 3 THEN DeleteStep(d2, 3, username) ELSE d2
    IN [db |-> d3, ok |-> raises_at > 3]

\* rows left for a user in the three tables
HasRows(db, username) ==
    \/ username \in db.users
    \/ \E i \in 1..Len(db.history) : db.history[i].username = username
    \/ \E r \in db.favorites : r.username = username

\* ------------------------------------------------------------ the session
\* value: the value= the symbol text_input was created with; text: its text;
\* selected_symbol: the symbol of the option chosen in the result selectbox
NoWidgets == [value |-> None, text |-> None, selected_symbol |-> None]

\* event: the button of the run; user: the username the run read from the
\* session state; fetched: the symbol given to yf.download;
\* rows: the rows it returned; fitted: model.fit was called; recorded:
\* add_history inserted a row; asked: add_favorite was called; rejected: the
\* message of lines 238, 240; error: the st.error of lines 250, 262, 311;
\* edited: line 219 found another symbol than the last one while the flag
\* is_valid_symbol was set
NoRun == [event |-> "none", user |-> "", fetched |-> None, rows |-> -1, fitted |-> FALSE,
          recorded |-> FALSE, asked |-> FALSE, rejected |-> "none",
          error |-> "none", edited |-> FALSE]

\* rows of the series yf.download returns; -1 stands for it raising
RowCounts == {-1, 0, MIN_ROWS - 1, MaxRows}

\* every provider, Prophet and store call of the run succeeds
Nominal == [rows |-> MaxRows, fit_ok |-> TRUE, hist_ok |-> TRUE, fav_ok |-> TRUE]

\* the outcomes that differ: a later call is only made if the earlier succeed
Externals ==
    {Nominal}
    \cup {[Nominal EXCEPT !.fav_ok = FALSE, !.rows = n] : n \in RowCounts}
    \cup {[Nominal EXCEPT !.fav_ok = FALSE, !.hist_ok = FALSE],
          [Nominal EXCEPT !.fav_ok = FALSE, !.fit_ok = FALSE]}

\* texts a user can type into the symbol field: blanks, then nothing or "a"
Blanks(n) == [i \in 1..n |-> " "]

Texts == {Blanks(n) : n \in 0..MaxBlanks}
         \cup {Blanks(n) \o <<"a">> : n \in 0..MaxBlanks}

\* the query field: empty, or a query the ticker search is run for
Queries == {"", "q"}

\* is_valid_symbol is read with .get() only, so an absent key reads as False
InitSession ==
    [logged_in |-> FALSE, username |-> "", search_symbol |-> None,
     is_valid_symbol |-> FALSE, last_input_symbol |-> None,
     last_searched |-> None, ticker_search_input |-> ""]

\* current_symbol = selected_symbol if selected_symbol else search_symbol
CurrentSymbol(ss, w) ==
    LET search_symbol ==
            IF ss.search_symbol = None THEN DEFAULT_SYMBOL ELSE ss.search_symbol
        selected ==
            IF ss.ticker_search_input # "" THEN w.selected_symbol ELSE None
    IN IF selected # None /\ selected # <<>> THEN selected ELSE search_symbol

\* the text in st.text_input(value=current_symbol): what the user typed into
\* this widget, or the value of a widget that is new in this run
InputText(ss, w) ==
    IF w.value = CurrentSymbol(ss, w) THEN w.text ELSE CurrentSymbol(ss, w)

\* symbol = st.text_input(..., value=current_symbol).upper()
DisplayedSymbol(ss, w) == Upper(InputText(ss, w))

\* lines 219-221 with the reset of is_valid_symbol dropped
TrackInputNoReset(ss, symbol) ==
    IF ss.last_input_symbol # symbol
    THEN [ss EXCEPT !.last_input_symbol = symbol]
    ELSE ss

\* lines 219-221: a changed symbol resets is_valid_symbol
TrackInput(ss, symbol) ==
    IF ss.last_input_symbol # symbol
    THEN [ss EXCEPT !.is_valid_symbol = FALSE, !.last_input_symbol = symbol]
    ELSE ss

\* line 261 with the length test dropped
TooShortOnlyEmpty(rows) == rows = 0

\* data.empty or len(data) < 10
TooShort(rows) == rows = 0 \/ rows < MIN_ROWS

\* line 249 with the .strip() dropped
IsBlankNoStrip(symbol) == symbol = <<>>

\* not symbol.strip()
IsBlank(symbol) == Strip(symbol) = <<>>

\* line 248 with the last_searched test dropped
ForecastRequestedByButton(ss, symbol, execute_btn) == execute_btn

\* line 248: execute_btn or st.session_state.get('last_searched') == symbol
ForecastRequested(ss, symbol, execute_btn) ==
    execute_btn \/ ss.last_searched = symbol

\* lines 253-254 with the assignment to search_symbol dropped
StartForecastKeepSearchSymbol(ss, symbol) ==
    [ss EXCEPT !.last_searched = symbol]

\* lines 253-254: the forecast starts
StartForecast(ss, symbol) ==
    [ss EXCEPT !.search_symbol = symbol, !.last_searched = symbol]

\* lines 248-312: the forecast part of a run that got as far as it.
\* Gives the session state, the tables and what the run called.
Forecast(db, ss, symbol, execute_btn, ext, log) ==
    IF ~ForecastRequested(ss, symbol, execute_btn)
    THEN [ss |-> ss, db |-> db, log |-> log]
    ELSE IF IsBlank(symbol)
    THEN [ss |-> ss, db |-> db, log |-> [log EXCEPT !.error = "empty_symbol"]]
    ELSE
    LET s1 == StartForecast(ss, symbol)
        invalid == [s1 EXCEPT !.is_valid_symbol = FALSE]
        fetched == [log EXCEPT !.fetched = symbol, !.rows = ext.rows]
    IN  IF ext.rows = -1
        THEN \* yf.download raised
             [ss |-> invalid, db |-> db,
              log |-> [fetched EXCEPT !.error = "exception"]]
        ELSE IF TooShort(ext.rows)
        THEN [ss |-> invalid, db |-> db,
              log |-> [fetched EXCEPT !.error = "insufficient_data"]]
        ELSE IF ~ext.hist_ok
        THEN \* add_history raised
             [ss |-> invalid, db |-> db,
              log |-> [fetched EXCEPT !.error = "exception"]]
        ELSE IF ~ext.fit_ok
        THEN \* model.fit raised, after the row was inserted
             [ss |-> invalid, db |-> add_history(db, ss.username, symbol),
              log |-> [fetched EXCEPT !.recorded = TRUE, !.fitted = TRUE,
                                      !.error = "exception"]]
        ELSE [ss |-> [s1 EXCEPT !.is_valid_symbol = TRUE],
              db |-> add_history(db, ss.username, symbol),
              log |-> [fetched EXCEPT !.recorded = TRUE, !.fitted = TRUE]]

\* line 239 with the is_valid_symbol test dropped
IsValidatedAlways(ss) == TRUE

\* st.session_state.get('is_valid_symbol')
IsValidated(ss) == ss.is_valid_symbol

\* show_stock_predict_ui, one run.  event is the button pressed in this run
\* ("execute", "add", "remove") or "none".
show_stock_predict_ui(db, ss0, w, event, ext) ==
    LET s1 == IF ss0.search_symbol = None
              THEN [ss0 EXCEPT !.search_symbol = DEFAULT_SYMBOL] ELSE ss0
        favs == get_favorites(db, s1.username)
        symbol == DisplayedSymbol(s1, w)
        s2 == TrackInput(s1, symbol)
        rendered == [value |-> CurrentSymbol(s1, w), text |-> InputText(s1, w),
                     selected_symbol |-> IF s1.ticker_search_input # ""
                                         THEN w.selected_symbol ELSE None]
        log == [NoRun EXCEPT !.event = event, !.user = s1.username,
                             !.edited = (s1.is_valid_symbol
                                         /\ s1.last_input_symbol # symbol)]
        base == [session_state |-> s2, widgets |-> rendered, supabase |-> db,
                 rerun |-> FALSE, log |-> log]
        forecast(l) ==
            LET f == Forecast(db, s2, symbol, event = "execute", ext, l)
            IN [base EXCEPT !.session_state = f.ss, !.supabase = f.db,
                            !.log = f.log]
    IN  IF event = "remove" /\ symbol \in favs
        THEN \* remove_favorite; st.rerun()
             [base EXCEPT !.supabase = remove_favorite(db, s1.username, symbol),
                          !.rerun = TRUE]
        ELSE IF event = "add" /\ symbol \notin favs
        THEN IF IsBlank(symbol)
             THEN forecast([log EXCEPT !.rejected = "empty_symbol"])
             ELSE IF ~IsValidated(s2)
             THEN forecast([log EXCEPT !.rejected = "not_validated"])
             ELSE IF ext.fav_ok
             THEN \* add_favorite returned True; st.rerun()
                  [base EXCEPT !.supabase = add_favorite(db, s1.username, symbol),
                               !.rerun = TRUE,
                               !.log = [log EXCEPT !.asked = TRUE]]
             ELSE forecast([log EXCEPT !.asked = TRUE])
        ELSE forecast(log)

\* the outcomes to tell apart in a run: one, when the run calls none of them
ExternalsOf(db, ss0, w, event) ==
    LET quiet == show_stock_predict_ui(
                     db, ss0, w, event, [Nominal EXCEPT !.fav_ok = FALSE]).log
    IN IF quiet.fetched = None /\ ~quiet.asked THEN {Nominal} ELSE Externals

\* --------------------------------------------------------------- the runs
\* a run of main() of a logged-in session that reaches show_stock_predict_ui
\* (lines 149-189 with no sidebar button pressed, then lines 191-312), on
\* the tables db
AppRun(db, ss0, w, event) ==
    \E ext \in ExternalsOf(db, ss0, w, event) :
        \E r \in {show_stock_predict_ui(db, ss0, w, event, ext)} :
            /\ Len(r.supabase.history) <= MaxHistory
            /\ Cardinality(r.supabase.favorites) <= MaxFavorites
            /\ supabase' = r.supabase
            /\ session_state' = r.session_state
            /\ widgets' = r.widgets
            /\ last_run' = r.log
            /\ pc' = IF r.rerun THEN "rerun" ELSE "idle"
            /\ page' = "app"
            /\ shown_history' = Elements(get_history(db, ss0.username))
            /\ UNCHANGED <<deletion, pureVars>>

Interactive == pc = "idle" /\ page = "app" /\ session_state.logged_in

\* the symbol the page shows: the one the last completed run rendered
Displayed == session_state.last_input_symbol

\* lines 130-137: the login button
Login ==
    /\ pc = "idle" /\ page = "login"
    /\ \E user \in Usernames, password_ok \in BOOLEAN :
        LET result == login_user(supabase, user, password_ok)
        IN  /\ session_state' =
                   IF result
                   THEN [session_state EXCEPT !.logged_in = TRUE,
                                              !.username = user]
                   ELSE session_state
            /\ pc' = IF result THEN "rerun" ELSE "idle"
    /\ last_run' = NoRun
    /\ UNCHANGED <<supabase, deletion, pureVars, widgets, page, shown_history>>

\* lines 142-147: the register button; a taken username is rejected
Register ==
    /\ pc = "idle" /\ page = "login"
    /\ \E new_user \in Usernames : supabase' = create_user(supabase, new_user)
    /\ last_run' = NoRun
    /\ UNCHANGED <<deletion, pureVars, session_state, widgets, page,
                   shown_history, pc>>

\* lines 151-153: the logout button
Logout ==
    /\ Interactive
    /\ session_state' = [session_state EXCEPT !.logged_in = FALSE]
    /\ pc' = "rerun"
    /\ last_run' = NoRun
    /\ UNCHANGED <<supabase, deletion, pureVars, widgets, page, shown_history>>

\* lines 158-163: the delete button.  True: logged out and st.rerun();
\* False: the run goes on, on what the deletes left
DeleteClick ==
    /\ Interactive
    /\ \E raises_at \in 1..4 :
        \E d \in {delete_account(supabase, session_state.username, raises_at)} :
            IF d.ok
            THEN /\ supabase' = d.db
                 /\ session_state' = [session_state EXCEPT !.logged_in = FALSE,
                                                            !.username = ""]
                 /\ pc' = "rerun"
                 /\ last_run' = NoRun
                 /\ UNCHANGED <<deletion, pureVars, widgets, page, shown_history>>
            ELSE AppRun(d.db, session_state, widgets, "none")

\* lines 167-187: a favorite or history button of the sidebar
SidebarClick(symbol) ==
    /\ session_state' = [session_state EXCEPT !.search_symbol = symbol,
                                               !.ticker_search_input = "",
                                               !.is_valid_symbol = FALSE]
    /\ pc' = "rerun"
    /\ last_run' = NoRun
    /\ UNCHANGED <<supabase, deletion, pureVars, widgets, page, shown_history>>

FavoriteClick ==
    /\ Interactive
    /\ \E f \in get_favorites(supabase, session_state.username) :
           SidebarClick(f)

HistoryClick ==
    /\ Interactive
    /\ \E h \in shown_history : SidebarClick(h)

\* line 202: a new text in the query field, and the candidate the search
\* offers for it (None: no candidates)
QueryEdit ==
    /\ Interactive
    /\ \E q \in Queries, c \in Candidates \cup {None} :
        /\ q # session_state.ticker_search_input
        /\ AppRun(supabase,
                  [session_state EXCEPT !.ticker_search_input = q],
                  [widgets EXCEPT !.selected_symbol =
                                       IF q = "" THEN None ELSE c],
                  "none")

\* line 218: a new text in the symbol field
SymbolEdit ==
    /\ Interactive
    /\ \E text \in Texts :
        /\ text # widgets.text
        /\ AppRun(supabase, session_state, [widgets EXCEPT !.text = text],
                  "none")

\* line 224: another lookback period; any run without a button
LookbackChange ==
    /\ Interactive
    /\ AppRun(supabase, session_state, widgets, "none")

\* line 228: the forecast button
ExecuteClick ==
    /\ Interactive
    /\ AppRun(supabase, session_state, widgets, "execute")

\* line 236: the add-favorite button, shown while symbol is no favorite
AddFavoriteClick ==
    /\ Interactive
    /\ Displayed \notin get_favorites(supabase, session_state.username)
    /\ AppRun(supabase, session_state, widgets, "add")

\* line 232: the remove-favorite button, shown while symbol is a favorite
RemoveFavoriteClick ==
    /\ Interactive
    /\ Displayed \in get_favorites(supabase, session_state.username)
    /\ AppRun(supabase, session_state, widgets, "remove")

\* the run st.rerun() asked for: the login page, or the application
Rerun ==
    /\ pc = "rerun"
    /\ IF session_state.logged_in
       THEN AppRun(supabase, session_state, widgets, "none")
       ELSE /\ session_state' =
                   [session_state EXCEPT !.ticker_search_input = ""]
            /\ widgets' = NoWidgets
            /\ page' = "login"
            /\ shown_history' = {}
            /\ pc' = "idle"
            /\ last_run' = NoRun
            /\ UNCHANGED <<supabase, deletion, pureVars>>

\* stage: the line the run has reached; df_train, future: the ds column, a
\* sequence of days; forecast: the ds column of the rows predict returned
NoFrames == [stage |-> "none", df_train |-> <<>>, future |-> <<>>,
             forecast |-> <<>>]

\* returned: the call was made; text: its argument; invoked:
\* GoogleTranslator.translate was called; result: what it returned
NoTranslation == [returned |-> FALSE, text |-> <<>>, invoked |-> FALSE,
                  result |-> <<>>]

\* pc: 0 no call, 1..3 the delete to make next, 4 returned
NoDeletion == [pc |-> 0, username |-> "", ok |-> FALSE]

Init ==
    /\ supabase = [EmptyStore EXCEPT !.users = Usernames]
    /\ deletion = NoDeletion
    /\ session_state = InitSession
    /\ widgets = NoWidgets
    /\ page = "login"
    /\ shown_history = {}
    /\ pc = "idle"
    /\ last_run = NoRun
    /\ frames = NoFrames
    /\ translation = NoTranslation

Next ==
    \/ Login
    \/ Register
    \/ Logout
    \/ DeleteClick
    \/ FavoriteClick
    \/ HistoryClick
    \/ QueryEdit
    \/ SymbolEdit
    \/ LookbackChange
    \/ ExecuteClick
    \/ AddFavoriteClick
    \/ RemoveFavoriteClick
    \/ Rerun

Spec == Init /\ [][Next]_vars

\* ------------------------------------------------- SpecHistory: the reads
\* add_history(username, symbol), called by any session of any user
AddHistory ==
    /\ Len(supabase.history) < MaxInsertions
    /\ \E username \in Usernames, symbol \in StoreSymbols :
           supabase' = add_history(supabase, username, symbol)
    /\ UNCHANGED <<deletion, pureVars, sessionVars>>

NextHistory == AddHistory

SpecHistory == Init /\ [][NextHistory]_vars

\* --------------------------------- SpecStore: delete_account, step by step
\* a session of the user calls delete_account(username)
DeleteAccountCall ==
    /\ deletion.pc = 0
    /\ \E username \in supabase.users :
           deletion' = [pc |-> 1, username |-> username, ok |-> FALSE]
    /\ UNCHANGED <<supabase, pureVars, sessionVars>>

\* lines 107-110: the next delete; after the third, return True
DeleteAccountStep ==
    /\ deletion.pc \in 1..3
    /\ supabase' = DeleteStep(supabase, deletion.pc, deletion.username)
    /\ deletion' = IF deletion.pc = 3
                   THEN [deletion EXCEPT !.pc = 4, !.ok = TRUE]
                   ELSE [deletion EXCEPT !.pc = @ + 1]
    /\ UNCHANGED <<pureVars, sessionVars>>

\* lines 111-113: the next delete raises; return False
DeleteAccountRaises ==
    /\ deletion.pc \in 1..3
    /\ deletion' = [deletion EXCEPT !.pc = 4, !.ok = FALSE]
    /\ UNCHANGED <<supabase, pureVars, sessionVars>>

\* the caller goes on
DeleteAccountReturned ==
    /\ deletion.pc = 4
    /\ deletion' = NoDeletion
    /\ UNCHANGED <<supabase, pureVars, sessionVars>>

\* line 266 in another session: add_history(username, symbol)
OtherAddHistory ==
    /\ Len(supabase.history) < MaxHistory
    /\ \E username \in Usernames, symbol \in StoreSymbols :
           supabase' = add_history(supabase, username, symbol)
    /\ UNCHANGED <<deletion, pureVars, sessionVars>>

\* line 242 in another session: add_favorite(username, symbol)
OtherAddFavorite ==
    /\ Cardinality(supabase.favorites) < MaxFavorites
    /\ \E username \in Usernames, symbol \in StoreSymbols :
           supabase' = add_favorite(supabase, username, symbol)
    /\ UNCHANGED <<deletion, pureVars, sessionVars>>

\* line 144 in another session: create_user(new_user, new_password)
OtherCreateUser ==
    /\ \E username \in Usernames : supabase' = create_user(supabase, username)
    /\ UNCHANGED <<deletion, pureVars, sessionVars>>

NextStore ==
    \/ DeleteAccountCall
    \/ DeleteAccountStep
    \/ DeleteAccountRaises
    \/ DeleteAccountReturned
    \/ OtherAddHistory
    \/ OtherAddFavorite
    \/ OtherCreateUser

SpecStore == Init /\ [][NextStore]_vars

\* ------------------ SpecDelete: delete_account with no concurrent writes
\* the writes of sessions while no delete_account call is in progress; a
\* session writes under the username it logged in with, whose row exists
QuietAddHistory ==
    /\ deletion.pc = 0
    /\ Len(supabase.history) < MaxHistory
    /\ \E username \in supabase.users, symbol \in StoreSymbols :
           supabase' = add_history(supabase, username, symbol)
    /\ UNCHANGED <<deletion, pureVars, sessionVars>>

QuietAddFavorite ==
    /\ deletion.pc = 0
    /\ Cardinality(supabase.favorites) < MaxFavorites
    /\ \E username \in supabase.users, symbol \in StoreSymbols :
           supabase' = add_favorite(supabase, username, symbol)
    /\ UNCHANGED <<deletion, pureVars, sessionVars>>

QuietCreateUser ==
    /\ deletion.pc = 0
    /\ \E username \in Usernames : supabase' = create_user(supabase, username)
    /\ UNCHANGED <<deletion, pureVars, sessionVars>>

NextDelete ==
    \/ DeleteAccountCall
    \/ DeleteAccountStep
    \/ DeleteAccountRaises
    \/ DeleteAccountReturned
    \/ QuietAddHistory
    \/ QuietAddFavorite
    \/ QuietCreateUser

SpecDelete == Init /\ [][NextDelete]_vars

\* ------------------------- SpecForecast: the frames of lines 259-289
\* the days of a set, ascending
RECURSIVE Ascending(_)
Ascending(S) ==
    IF S = {} THEN <<>>
    ELSE LET d == CHOOSE x \in S : \A y \in S : x <= y
         IN <<d>> \o Ascending(S \ {d})

\* the ds column of a series yf.download can return: distinct days in
\* ascending order, on any days of the week
Series ==
    {Ascending(S) : S \in {D \in SUBSET (0..MaxDate) :
                               Cardinality(D) \in (MIN_ROWS - 1)..MaxRows}}

\* Series.dt.dayofweek: Monday is 0, Sunday is 6
dayofweek(d) == d % 7

\* model.make_future_dataframe(periods): the days of the history, then the
\* periods days after its last day
make_future_dataframe(ds, periods) ==
    ds \o [i \in 1..periods |-> ds[Len(ds)] + i]

\* line 288 with <= for <
weekdays_and_saturdays(future) ==
    SelectSeq(future, LAMBDA d : dayofweek(d) <= SATURDAY)

\* future[future['day_of_week'] < 5]
weekdays(future) == SelectSeq(future, LAMBDA d : dayofweek(d) < SATURDAY)

\* model.predict(future): one row for each row of future
predict(future) == future

\* lines 259-281: the series is downloaded; lines 261-263 turn a short one
\* down
Download ==
    /\ frames.stage = "none"
    /\ \E ds \in Series :
           frames' = [frames EXCEPT !.df_train = ds,
                          !.stage = IF TooShort(Len(ds)) THEN "rejected"
                                    ELSE "train"]
    /\ UNCHANGED <<supabase, deletion, translation, sessionVars>>

\* line 286
MakeFuture ==
    /\ frames.stage = "train"
    /\ frames' = [frames EXCEPT
                      !.future = make_future_dataframe(frames.df_train, PERIODS),
                      !.stage = "future"]
    /\ UNCHANGED <<supabase, deletion, translation, sessionVars>>

\* lines 287-288
FilterWeekdays ==
    /\ frames.stage = "future"
    /\ frames' = [frames EXCEPT !.future = weekdays(frames.future),
                                !.stage = "filtered"]
    /\ UNCHANGED <<supabase, deletion, translation, sessionVars>>

\* line 289
Predict ==
    /\ frames.stage = "filtered"
    /\ frames' = [frames EXCEPT !.forecast = predict(frames.future),
                                !.stage = "predicted"]
    /\ UNCHANGED <<supabase, deletion, translation, sessionVars>>

NextForecast ==
    \/ Download
    \/ MakeFuture
    \/ FilterWeekdays
    \/ Predict

SpecForecast == Init /\ [][NextForecast]_vars

\* -------------------------------------- SpecTranslate: translate_to_english
\* code points of the characters of a query: A, DEL, the first one past
\* ASCII, e with acute, y with diaeresis, A with macron, katakana TO
CodePoints == {65, 127, 128, 233, 255, 256, 12488}

\* the queries: texts of code points
QueryTexts == UNION {[1..n -> CodePoints] : n \in 0..MaxQueryLen}

\* what the translator can return for a text
Translations == {<<65>>, <<65, 65>>}

\* line 43 with 127 for 255
has_non_ascii(text) == \E i \in 1..Len(text) : text[i] > 127

\* any(ord(char) > 255 for char in text)
has_wide_char(text) == \E i \in 1..Len(text) : text[i] > MAX_SINGLE_BYTE

\* translate_to_english(text); when GoogleTranslator is called it returns
\* translated, or raises
translate_to_english(text, translated, raises) ==
    IF has_wide_char(text)
    THEN [returned |-> TRUE, text |-> text, invoked |-> TRUE,
          result |-> IF raises THEN text ELSE translated]
    ELSE [returned |-> TRUE, text |-> text, invoked |-> FALSE, result |-> text]

\* line 53: english_query = translate_to_english(query)
Translate ==
    /\ ~translation.returned
    /\ \E text \in QueryTexts, translated \in Translations, raises \in BOOLEAN :
           translation' = translate_to_english(text, translated, raises)
    /\ UNCHANGED <<supabase, deletion, frames, sessionVars>>

NextTranslate == Translate

SpecTranslate == Init /\ [][NextTranslate]_vars

\* ================================================================ claims
Distinct(s) == \A i, j \in 1..Len(s) : i # j => s[i] # s[j]

\* the place of the newest row with this symbol
LastIndex(s, x) ==
    CHOOSE i \in 1..Len(s) : s[i] = x /\ \A j \in (i + 1)..Len(s) : s[j] # x

\* C1: after any add_history calls by any users, get_history(user) has at
\* most 5 entries and no symbol twice, for every user.
C1_HistoryCappedDistinct ==
    \A u \in Usernames :
        LET h == get_history(supabase, u)
        IN Len(h) <= HISTORY_LIMIT /\ Distinct(h)

\* a user with more than 5 rows, a repeated symbol among the newest 5, and
\* rows of another user in the table
C1_Witness ==
    \E u, v \in Usernames :
        /\ u # v
        /\ Len(SymbolsOf(supabase, u)) > HISTORY_LIMIT
        /\ ~Distinct(Limit(Reverse(SymbolsOf(supabase, u)), HISTORY_LIMIT))
        /\ Len(get_history(supabase, u)) > 1
        /\ Len(SymbolsOf(supabase, v)) > 0

\* C2: get_history(user) is the user's whole history deduplicated by recency
\* and then cut to 5: the min(5, k) most recently inserted distinct symbols.
C2_DedupThenCap ==
    \A u \in Usernames :
        get_history(supabase, u) =
            Limit(DictFromKeys(Reverse(SymbolsOf(supabase, u))), HISTORY_LIMIT)

\* C3: the symbols of get_history(user) are in the order of their most recent
\* insertion, newest first; insertions A, B, A, C give C, A, B.
C3_RecencyOrder ==
    \A u \in Usernames :
        LET rows == SymbolsOf(supabase, u)
            h == get_history(supabase, u)
        IN  /\ \A i, j \in 1..Len(h) :
                   i < j => LastIndex(rows, h[i]) > LastIndex(rows, h[j])
            /\ rows = << <<"A">>, <<"B">>, <<"A">>, <<"C">> >>
                   => h = << <<"C">>, <<"A">>, <<"B">> >>

\* the insertions A, B, A, C of one user, among rows of another user
C3_Witness ==
    \E u, v \in Usernames :
        /\ u # v
        /\ SymbolsOf(supabase, u) = << <<"A">>, <<"B">>, <<"A">>, <<"C">> >>
        /\ Len(SymbolsOf(supabase, v)) > 1

\* the flag is set and belongs to this symbol
ValidFor(symbol) ==
    session_state.is_valid_symbol /\ session_state.last_input_symbol = symbol

\* C4: a click on the add-favorite button calls add_favorite only if the
\* displayed symbol is Valid; otherwise the favorites stay as they are; and
\* no other run adds a favorite.
C4_FavoriteAddOnlyWhenValid ==
    [][LET symbol == session_state'.last_input_symbol
       IN  /\ last_run'.event = "add" =>
                /\ last_run'.asked => ValidFor(symbol)
                /\ ~ValidFor(symbol) =>
                       supabase'.favorites = supabase.favorites
           /\ ~(supabase'.favorites \subseteq supabase.favorites) =>
                /\ last_run'.event = "add" /\ last_run'.asked
                /\ ValidFor(symbol)
                /\ supabase'.favorites = supabase.favorites
                       \cup {Row(session_state.username, symbol)}]_vars

\* an add click rejected for want of a forecast, after one that was accepted
C4_Witness ==
    /\ last_run.event = "add"
    /\ last_run.rejected = "not_validated"
    /\ ~last_run.asked
    /\ supabase.favorites # {}
    /\ Row(session_state.username, session_state.last_input_symbol)
           \notin supabase.favorites

\* the run fetched a usable series for the symbol it displays
FetchSucceeded ==
    /\ last_run.fetched = session_state.last_input_symbol
    /\ last_run.rows >= MIN_ROWS
    /\ last_run.error = "none"

C6_FailureRecordsNothing ==
    (last_run.fetched # None /\ last_run.error # "none")
        => ~session_state.is_valid_symbol /\ ~last_run.recorded

\* C7: a fetched series of fewer than 10 rows ends the run with the
\* insufficient-data error, the flag cleared, and no model fitted.
C7_ShortSeriesInvalid ==
    (last_run.fetched # None /\ last_run.rows >= 0 /\ last_run.rows < MIN_ROWS)
        => /\ last_run.error = "insufficient_data"
           /\ ~session_state.is_valid_symbol
           /\ ~last_run.fitted
           /\ ~last_run.recorded

\* a run that fetched 9 rows
C7_Witness ==
    /\ last_run.fetched # None
    /\ last_run.rows = MIN_ROWS - 1

Normalized(s) == Upper(s) = s /\ Strip(s) = s

\* C8: the symbol given to the fetch, and every symbol in the history and
\* favorites tables, is uppercase and has no leading or trailing blank.
C8_SymbolsNormalized ==
    /\ last_run.fetched # None => Normalized(last_run.fetched)
    /\ \A i \in 1..Len(supabase.history) : Normalized(supabase.history[i].symbol)
    /\ \A r \in supabase.favorites : Normalized(r.symbol)

\* C9: a click on the forecast button with a symbol that is blank once
\* stripped shows the empty-symbol error, fetches nothing, and leaves
\* search_symbol, last_searched, the flag and the history as they were.
C9_EmptySymbolFailsFast ==
    [][(last_run'.event = "execute"
        /\ Strip(session_state'.last_input_symbol) = <<>>)
       => /\ last_run'.error = "empty_symbol"
          /\ last_run'.fetched = None
          /\ session_state'.search_symbol = session_state.search_symbol
          /\ session_state'.last_searched = session_state.last_searched
          /\ session_state'.is_valid_symbol = session_state.is_valid_symbol
          /\ supabase'.history = supabase.history]_vars

\* the forecast button pressed on a one-blank symbol, after a forecast
C9_Witness ==
    /\ last_run.event = "execute"
    /\ last_run.error = "empty_symbol"
    /\ session_state.last_input_symbol = <<" ">>
    /\ session_state.last_searched # None

\* C10: when delete_account(user) has returned True, the user has no row left
\* in history, favorites or users, whatever other sessions wrote meanwhile.
C10_DeleteLeavesNothing ==
    [][(deletion.pc # 4 /\ deletion'.pc = 4 /\ deletion'.ok)
       => ~HasRows(supabase', deletion'.username)]_vars

LastObserved == frames.df_train[Len(frames.df_train)]

\* the days of the forecast after the last observed day
FutureDays == {d \in Elements(frames.forecast) : d > LastObserved}

\* C12: the future part of the forecast is exactly the days from Monday to
\* Friday among the 10 days after the last observed day: no Saturday, no
\* Sunday, and between 6 and 8 days.
C12_FutureBusinessDays ==
    frames.stage = "predicted" =>
        /\ FutureDays = {d \in (LastObserved + 1)..(LastObserved + 10) :
                             d % 7 \notin {5, 6}}
        /\ Cardinality(FutureDays) \in 6..8

\* a forecast after a series that ends on a Friday: 6 future days
C12_Witness ==
    /\ frames.stage = "predicted"
    /\ LastObserved % 7 = 4
    /\ Cardinality(FutureDays) = 6

\* C18: the forecast has a row for every day of the historical series, the
\* Saturdays and Sundays among them too.
C18_ForecastCoversHistory ==
    frames.stage = "predicted" =>
        \A i \in 1..Len(frames.df_train) :
            Contains(frames.forecast, frames.df_train[i])

IsAscii(text) == \A i \in 1..Len(text) : text[i] <= 127

\* C13: translate_to_english returns an ASCII-only query unchanged without
\* calling the translator, and calls the translator for every query with at
\* least one non-ASCII character.
C13_TranslateNonAscii ==
    translation.returned =>
        /\ IsAscii(translation.text) =>
               ~translation.invoked /\ translation.result = translation.text
        /\ ~IsAscii(translation.text) => translation.invoked

\* C13 amended: a query whose characters all have code points up to 255 is
\* returned unchanged without calling the translator; the translator is
\* called for every query with a character above 255.
C13_TranslateWideChars ==
    LET single == \A i \in 1..Len(translation.text) : translation.text[i] <= 255
    IN  translation.returned =>
            /\ single => ~translation.invoked
                          /\ translation.result = translation.text
            /\ ~single => translation.invoked

\* a query with e-acute and no character above 255, returned as it is
C13_Witness ==
    /\ translation.returned
    /\ Contains(translation.text, 233)
    /\ ~translation.invoked
    /\ translation.result = translation.text
    /\ Len(translation.text) > 1

\* C15: a run appends a history row only if it is the run of a click on the
\* forecast button whose fetch returned a usable series, and then one row;
\* a run of any other interaction appends no row and fetches nothing.
C15_HistoryOnlyOnRequest ==
    [][/\ Len(supabase'.history) > Len(supabase.history) =>
              /\ last_run'.event = "execute"
              /\ last_run'.rows >= MIN_ROWS
              /\ Len(supabase'.history) = Len(supabase.history) + 1
       /\ last_run'.event # "execute" =>
              /\ last_run'.fetched = None
              /\ Len(supabase'.history) <= Len(supabase.history)]_vars

\* C16: a click on the add-favorite or on the remove-favorite button changes
\* the favorites only if the displayed symbol is Valid when the click is
\* handled; otherwise the favorites stay as they are.
C16_ToggleOnlyWhenValid ==
    [][(/\ last_run'.event \in {"add", "remove"}
        /\ supabase'.favorites # supabase.favorites)
       => session_state'.is_valid_symbol]_vars

HistoryRowsOf(db, username) ==
    {i \in 1..Len(db.history) : db.history[i].username = username}

FavoriteRowsOf(db, username) == {r \in db.favorites : r.username = username}

\* C17: with no write of another session during the call, delete_account
\* deletes the history rows, then the favorites rows, then the users row; a
\* delete that raises ends the call with False, the tables as the deletes
\* before it left them; and at no time is the users row gone while a
\* history or favorites row of the user is left.
C17_DeleteOrderNoOrphans ==
    /\ [](\A u \in Usernames :
              u \notin supabase.users =>
                  HistoryRowsOf(supabase, u) = {}
                  /\ FavoriteRowsOf(supabase, u) = {})
    /\ [](LET u == deletion.username
          IN  /\ deletion.pc \in 2..3 => HistoryRowsOf(supabase, u) = {}
              /\ deletion.pc = 3 => FavoriteRowsOf(supabase, u) = {}
              /\ deletion.pc \in 1..3 => u \in supabase.users
              /\ deletion.pc = 4 =>
                     (deletion.ok <=> u \notin supabase.users))
    /\ [][(deletion.pc \in 1..3 /\ deletion'.pc = 4 /\ ~deletion'.ok)
              => supabase' = supabase]_vars

\* the call between its first and its second delete: the favorites rows of
\* the user are still there, the history holds a row of another user only
C17_Witness ==
    /\ deletion.pc = 2
    /\ FavoriteRowsOf(supabase, deletion.username) # {}
    /\ supabase.history # <<>>

\* C19: whatever a run of a logged-in session writes (history insert,
\* favorite insert or delete, account delete), the history rows, the
\* favorites rows and the users row of every other user stay as they were.
C19_WritesScopedToUser ==
    [][session_state.logged_in =>
          \A v \in Usernames \ {session_state.username} :
              /\ SymbolsOf(supabase', v) = SymbolsOf(supabase, v)
              /\ FavoriteRowsOf(supabase', v) = FavoriteRowsOf(supabase, v)
              /\ (v \in supabase'.users) = (v \in supabase.users)]_vars

\* u2 has deleted the account in a session in which u1 had made a forecast:
\* the history row of u1 is still there
C19_Witness ==
    /\ "u2" \notin supabase.users
    /\ session_state.username = ""
    /\ HistoryRowsOf(supabase, "u1") # {}

\* C20: whenever is_valid_symbol is True, last_searched, last_input_symbol
\* and search_symbol are one symbol, and it is the symbol the page displays
\* (the upper-cased text of the symbol field).
C20_ValidFlagOnDisplayedSymbol ==
    session_state.is_valid_symbol =>
        /\ session_state.last_searched = session_state.last_input_symbol
        /\ session_state.search_symbol = session_state.last_input_symbol
        /\ Interactive =>
               DisplayedSymbol(session_state, widgets)
                   = session_state.last_input_symbol

\* a Valid symbol that was typed into the symbol field, the default symbol
\* replaced
C20_Witness ==
    /\ Interactive
    /\ session_state.is_valid_symbol
    /\ session_state.search_symbol = <<" ", "A">>
    /\ widgets.text = <<" ", "a">>

====
